---------------------------- MODULE Spec2Model ----------------------------
(***************************************************************************)
(* Model of mvdlib.analysis.combine.Combiner: combine() averages indexed   *)
(* data files, write() stores the combined data and a README file.         *)
(*                                                                         *)
(* Numbers.  The data files hold floats; the model keeps x and y samples   *)
(* as integers and every computed value as an exact reduced fraction       *)
(* [n |-> numerator, d |-> denominator].  A standard deviation is kept as  *)
(* its square (the variance): the square root is one-to-one on the         *)
(* non-negative numbers, so two deviations are equal exactly when their    *)
(* variances are.                                                          *)
(***************************************************************************)
EXTENDS Integers, Sequences, FiniteSets, TLC

(***************************************************************************)
(* Bounds of the model.                                                    *)
(***************************************************************************)
NumFiles == 2     \* data files of a data directory: indices 1..NumFiles
MaxN     == 3     \* length of the list of indices given to one combine(): 0..MaxN
MaxPre   == 1     \* output files present before the first write(): counters 1..MaxPre
MaxWrites == 1    \* data files written by write() beyond which write() is not explored
MaxAdds == 2      \* add_data() calls on one Plotter
MaxCalls == 2     \* calls on one Glass with one wavelength object
MaxLoads == 3     \* load_sample() calls on one OOSpectrum

VARIABLES
    disk,       \* the data directory: index |-> what np.loadtxt finds in that file
    xdata,      \* self.xdata
    ydata,      \* self.ydata
    yerr,       \* self.yerr
    indeces,    \* self.indeces
    stamp,      \* history: for each of xdata, ydata, yerr, the call that stored it
    outdir,     \* the output directory: the data files and the README files
    last,       \* the last call: its name, how it ended, what it returned
    config,     \* self.datadir, prefix, zpad, suffix, delimiter, skiprows
    race,       \* the instances of the tool that run write() step by step
    mpl,        \* matplotlib: plt.rcParams and the objects it may refer to
    units,      \* the last call of a function of mvdlib.quantum.transitions
    spectrum,   \* an OOSpectrum: its fields and their history
    plotter,    \* a Plotter: its lists and their history
    glass       \* a Glass call: the caller's wavelength object and the results

vars == <<disk, xdata, ydata, yerr, indeces, stamp, outdir, last, config, race, mpl,
          units, spectrum, plotter, glass>>

\* What lies outside the Combiner and the plot settings.
others == <<units, spectrum, plotter, glass>>

None == <<>>
Some(v) == <<v>>

(***************************************************************************)
(* Arithmetic.                                                             *)
(***************************************************************************)
Abs(n) == IF n < 0 THEN -n ELSE n

RECURSIVE GCD(_, _)
GCD(a, b) == IF b = 0 THEN a ELSE GCD(b, a % b)

\* The fraction n/d (d > 0) in lowest terms.
Rat(n, d) ==
    LET g == GCD(Abs(n), d)
    IN  [n |-> n \div g, d |-> d \div g]

RECURSIVE NpSum(_)
NpSum(col) == IF col = <<>> THEN 0 ELSE Head(col) + NpSum(Tail(col))

\* A mis-computation of np.std: the sample variance (divide by N-1).
NpStdSample(col) ==
    LET N == Len(col)
        S == NpSum(col)
        sq == [k \in 1..N |-> (N * col[k] - S) * (N * col[k] - S)]
    IN  IF N = 1 THEN Rat(0, 1) ELSE Rat(NpSum(sq), N * N * (N - 1))

\* np.std(col), as its square: the mean of the squared deviations from
\* the mean S/N, each deviation being (N*col[k] - S)/N.
NpStd(col) ==
    LET N == Len(col)
        S == NpSum(col)
        sq == [k \in 1..N |-> (N * col[k] - S) * (N * col[k] - S)]
    IN  Rat(NpSum(sq), N * N * N)

(***************************************************************************)
(* Data files.                                                             *)
(***************************************************************************)
Missing == [kind |-> "missing", x |-> <<>>, y |-> <<>>]
Bad     == [kind |-> "bad", x |-> <<>>, y |-> <<>>]
Series(xs, ys) == [kind |-> "series", x |-> xs, y |-> ys]

SeqsOf(S, n) == [1..n -> S]

\* The runs of the documented scenario: x = 0, 1, 2 in all three.
FileA == Series(<<0, 1, 2>>, <<1, 2, 3>>)
FileB == Series(<<0, 1, 2>>, <<3, 2, 1>>)
FileC == Series(<<0, 1, 2>>, <<2, 2, 2>>)
\* Other x-axes: the same values in another order, a repeated value, one
\* value that differs, one sample more, a single sample.
FileRev  == Series(<<2, 1, 0>>, <<1, 1, 2>>)
FileRep  == Series(<<0, 0, 1>>, <<1, 3, 3>>)
FileOff  == Series(<<0, 1, 4>>, <<2, 3, 1>>)
FileLong == Series(<<0, 1, 2, 3>>, <<1, 2, 3, 1>>)
FileOne  == Series(<<0>>, <<2>>)

Files == {Missing, Bad, FileA, FileB, FileC, FileRev, FileRep, FileOff, FileLong, FileOne}

ExampleDisk == <<FileA, FileB, FileC>>

\* The data directories a single call is tried on.
Disks == [1..NumFiles -> Files] \cup {ExampleDisk}

\* The lists of indices a single call is tried on.
IndexLists(d) == UNION {SeqsOf(DOMAIN d, n) : n \in 0..MaxN}

\* The data directories and the lists of indices sequences of calls are tried on.
SeqDisks ==
    {<<FileA, FileB>>, <<FileA, Missing>>, <<FileA, Bad>>, <<FileA, FileOff>>,
     <<FileA, FileLong>>, <<FileRep, FileA>>, <<FileOne, FileA>>}
SeqLists == {<<>>, <<1>>, <<2>>, <<1, 2>>, <<2, 1>>}

(***************************************************************************)
(* __init__()                                                              *)
(***************************************************************************)
DefaultZpad == 4
DefaultSkiprows == 0
Cwd == "/cwd"

\* Combiner(datadir, prefix) with the keyword arguments left at their
\* defaults: '.' becomes the absolute path of the current directory.
Construct(datadir, prefix) ==
    [datadir   |-> IF datadir = "." THEN Cwd ELSE datadir,
     prefix    |-> prefix,
     zpad      |-> DefaultZpad,
     suffix    |-> "dat",
     delimiter |-> None,
     skiprows  |-> DefaultSkiprows]

(***************************************************************************)
(* combine()                                                               *)
(***************************************************************************)
\* np.in1d(ref, x).all(): every element of ref occurs in x.
In1dAll(ref, x) == \A i \in DOMAIN ref : \E j \in DOMAIN x : x[j] = ref[i]

\* The k-th pass of the loading loop: np.loadtxt raises IOError on a missing
\* file and ValueError on one it cannot parse into two columns; a series
\* after the first is compared with the first.
StepErr(d, idx, k) ==
    LET c == d[idx[k]]
    IN  IF c.kind = "missing" THEN "IOError"
        ELSE IF c.kind = "bad" THEN "ValueError"
        ELSE IF k > 1 /\ ~In1dAll(d[idx[1]].x, c.x) THEN "CombinationError"
        ELSE "none"

\* The loop stops at the first pass that raises.
LoopErr(d, idx) ==
    LET failing == {k \in DOMAIN idx : StepErr(d, idx, k) # "none"}
    IN  IF failing = {} THEN "none"
        ELSE StepErr(d, idx, CHOOSE k \in failing : \A j \in failing : k <= j)

\* np.array(ydata) and ydata.shape[1]: the list of loaded columns is a matrix
\* with a second axis only when there is at least one series, all series
\* have the same number of samples and that number is at least two (a file
\* of a single row loads as two scalars).  Otherwise building the array or
\* reading shape[1] raises.
ShapeErr(d, idx) ==
    LET lens == {Len(d[idx[k]].y) : k \in DOMAIN idx}
    IN  IF idx = <<>> THEN "IndexError"
        ELSE IF Cardinality(lens) > 1
             THEN (IF 1 \in lens THEN "ValueError" ELSE "IndexError")
        ELSE IF lens = {1} THEN "IndexError"
        ELSE "none"

CombineErr(d, idx) ==
    IF LoopErr(d, idx) # "none" THEN LoopErr(d, idx)
    ELSE IF ShapeErr(d, idx) # "none" THEN ShapeErr(d, idx)
    ELSE "ok"

\* ydata[:,i]
Column(d, idx, i) == [k \in DOMAIN idx |-> d[idx[k]].y[i]]

\* A mis-assignment of xdata: the x of the series loaded last.
CombineXLast(d, idx) == d[idx[Len(idx)]].x

\* The three arrays a combine() that raises nowhere computes.
CombineX(d, idx) == d[idx[1]].x
CombineY(d, idx) ==
    [i \in DOMAIN d[idx[1]].y |-> Rat(NpSum(Column(d, idx, i)), Len(idx))]

\* A mis-computation of yerr: the deviation of each series (ydata[i,:]
\* over range(ydata.shape[0])) instead of each x-position.
CombineEByRow(d, idx) ==
    [k \in DOMAIN idx |-> NpStd(d[idx[k]].y)]

CombineE(d, idx) ==
    [i \in DOMAIN d[idx[1]].y |-> NpStd(Column(d, idx, i))]

\* A combine() that stores what it has as it goes: self.xdata = xdata[0]
\* before the array of y columns is examined.
FieldsAfterEager(d, idx, old) ==
    IF CombineErr(d, idx) = "ok"
    THEN [xdata |-> Some(CombineX(d, idx)),
          ydata |-> Some(CombineY(d, idx)),
          yerr  |-> Some(CombineE(d, idx)),
          stamp |-> [x |-> Some(idx), y |-> Some(idx), e |-> Some(idx)]]
    ELSE IF LoopErr(d, idx) = "none" /\ idx # <<>>
    THEN [old EXCEPT !.xdata = Some(CombineX(d, idx)), !.stamp.x = Some(idx)]
    ELSE old

\* A combine() that starts by forgetting the previous result.
FieldsAfterReset(d, idx, old) ==
    IF CombineErr(d, idx) = "ok"
    THEN [xdata |-> Some(CombineX(d, idx)),
          ydata |-> Some(CombineY(d, idx)),
          yerr  |-> Some(CombineE(d, idx)),
          stamp |-> [x |-> Some(idx), y |-> Some(idx), e |-> Some(idx)]]
    ELSE [xdata |-> None, ydata |-> None, yerr |-> None,
          stamp |-> [x |-> None, y |-> None, e |-> None]]

\* The fields self.xdata, self.ydata, self.yerr and their history after
\* combine(idx) on a Combiner whose fields were old: a call that raises has
\* assigned none of them.
FieldsAfter(d, idx, old) ==
    IF CombineErr(d, idx) = "ok"
    THEN [xdata |-> Some(CombineX(d, idx)),
          ydata |-> Some(CombineY(d, idx)),
          yerr  |-> Some(CombineE(d, idx)),
          stamp |-> [x |-> Some(idx), y |-> Some(idx), e |-> Some(idx)]]
    ELSE old

\* combine(indeces): self.indeces is assigned before anything is loaded.
\* Plotting (plot=True) reads the three fields and assigns none; it is left
\* out.
combine(idx) ==
    LET err == CombineErr(disk, idx)
        new == FieldsAfter(disk, idx,
                   [xdata |-> xdata, ydata |-> ydata, yerr |-> yerr, stamp |-> stamp])
    IN  /\ indeces' = Some(idx)
        /\ xdata' = new.xdata
        /\ ydata' = new.ydata
        /\ yerr' = new.yerr
        /\ stamp' = new.stamp
        /\ last' = [op |-> "combine", err |-> err,
                    msg |-> IF err = "CombinationError"
                            THEN "x data must all be identical" ELSE "",
                    ret |-> IF err = "ok"
                            THEN Some(<<new.xdata[1], new.ydata[1], new.yerr[1]>>)
                            ELSE None,
                    outfile |-> 0, path |-> None]
        /\ UNCHANGED <<others, disk, outdir, config, race, mpl>>

(***************************************************************************)
(* write()                                                                 *)
(***************************************************************************)
\* Decimal digits, as '{:d}' prints them and as a parser reads them.
RECURSIVE DigitsOf(_)
DigitsOf(i) == IF i < 10 THEN <<i>> ELSE Append(DigitsOf(i \div 10), i % 10)

RECURSIVE ZeroPad(_, _)
ZeroPad(ds, w) == IF Len(ds) >= w THEN ds ELSE ZeroPad(<<0>> \o ds, w)

RECURSIVE DigitsValue(_)
DigitsValue(ds) ==
    IF ds = <<>> THEN 0
    ELSE 10 * DigitsValue(SubSeq(ds, 1, Len(ds) - 1)) + ds[Len(ds)]

RECURSIVE Pow10(_)
Pow10(k) == IF k = 0 THEN 1 ELSE 10 * Pow10(k - 1)

\* '{pre}_combined_{i:0{zpad}d}.csv'.format(pre, zpad, i): the counter takes at
\* least zpad digits, zeros in front.
Basename(pre, zpad, i) ==
    [pre |-> pre, mid |-> "_combined_", num |-> ZeroPad(DigitsOf(i), zpad), ext |-> ".csv"]

\* location as write() resolves it: '.' becomes the absolute path of the
\* current directory; rel stands for a relative path other than '.'.
Location(rel) == IF rel THEN "out" ELSE Cwd

\* os.path.join(location, basename)
Outfile(loc, pre, zpad, i) == [dir |-> loc, name |-> Basename(pre, zpad, i)]

\* os.path.exists(outfile), in a directory whose data files are numbered by
\* the counter in their name.
PathExistsNever(dir, i) == FALSE
PathExists(dir, i) == i \in DOMAIN dir.csv

\* A probing loop that starts one counter too far.
RECURSIVE ProbeFromNext(_, _)
ProbeFromNext(dir, i) ==
    IF PathExists(dir, i + 1) THEN ProbeFromNext(dir, i + 1) ELSE i + 1

\* The probing loop: the first counter from i on whose data file is absent.
RECURSIVE Probe(_, _)
Probe(dir, i) == IF PathExists(dir, i) THEN Probe(dir, i + 1) ELSE i

\* The largest r with r * r <= v.
RECURSIVE Isqrt(_)
Isqrt(v) ==
    IF v < 2 THEN v
    ELSE LET s == 2 * Isqrt(v \div 4)
         IN  IF (s + 1) * (s + 1) > v THEN s ELSE s + 1

\* n / d rounded to the nearest integer, a tie to the even one.
RoundDiv(n, d) ==
    LET q == n \div d
        r == n % d
    IN  IF 2 * r > d \/ (2 * r = d /\ q % 2 = 1) THEN q + 1 ELSE q

\* The square root of n / d by the schoolbook method, k decimals far: r is
\* the root found so far as an integer (the largest with r * r <= the part
\* of n / d taken in), rem what is left of that part, f what is left of n / d.
RECURSIVE SqrtDigits(_, _, _)
SqrtDigits(n, d, k) ==
    IF k = 0
    THEN LET r == Isqrt(n \div d)
         IN  [r |-> r, rem |-> (n \div d) - r * r, f |-> n % d]
    ELSE LET p == SqrtDigits(n, d, k - 1)
             rem == p.rem * 100 + (p.f * 100) \div d
             t == CHOOSE t \in 0..9 :
                      /\ (20 * p.r + t) * t <= rem
                      /\ t < 9 => (20 * p.r + t + 1) * (t + 1) > rem
         IN  [r |-> 10 * p.r + t, rem |-> rem - (20 * p.r + t) * t,
              f |-> (p.f * 100) % d]

\* The square root of n / d times 10^dec, rounded to the nearest integer: one
\* decimal more tells which way.  (The root lies halfway between two
\* integers for no variance of a few samples: the denominator of n / d
\* would be a multiple of 4 * 10^(2 * dec).)
RoundSqrt(n, d, dec) == (SqrtDigits(n, d, dec + 1).r + 5) \div 10

\* The text of a number with dec decimals: the digits before the point as a
\* number, those after it as a sequence.
Text(scaled, dec) ==
    [whole |-> scaled \div Pow10(dec),
     frac  |-> ZeroPad(DigitsOf(scaled % Pow10(dec)), dec)]

\* A format that cuts the decimals off instead of rounding.
FormatFTruncate(q, dec) == Text((q.n * Pow10(dec)) \div q.d, dec)

\* '%.<dec>f' % q for q >= 0.
FormatF(q, dec) == Text(RoundDiv(q.n * Pow10(dec), q.d), dec)

\* '%.<dec>f' % sqrt(var): yerr is kept as the variance, its root is taken
\* where it is printed.
FormatStd(var, dec) == Text(RoundSqrt(var.n, var.d, dec), dec)

\* np.savetxt(outfile, np.transpose([x, y, e]), delimiter=',', header=...,
\* fmt='%.<dec>f'): a comment line '# header', then a row of three numbers
\* for each x-position.
Savetxt(x, y, e, dec) ==
    <<[kind |-> "comment", cells |-> <<>>]>> \o
    [k \in DOMAIN x |->
        [kind  |-> "row",
         cells |-> <<FormatF(Rat(x[k], 1), dec), FormatF(y[k], dec),
                     FormatStd(e[k], dec)>>]]

\* float(text)
ParseFloat(t) ==
    Rat(t.whole * Pow10(Len(t.frac)) + DigitsValue(t.frac), Pow10(Len(t.frac)))

\* np.loadtxt(file, delimiter=',', unpack=True): comment lines are skipped,
\* each cell of the other lines is parsed, the columns are returned.
Loadtxt(lines) ==
    LET rows == SelectSeq(lines, LAMBDA l : l.kind = "row")
    IN  [c \in 1..3 |-> [k \in DOMAIN rows |-> ParseFloat(rows[k].cells[c])]]

\* The files of earlier runs: their content plays no part.
OldCsv == <<>>
OldReadme == [datadir |-> None, prefix |-> None, indeces |-> None]

\* A write() without its first check.
NoDataUnchecked == FALSE

\* if self.xdata is None
NoData == xdata = None

\* A write() that keeps the resolved location in self.datadir.
ConfigAfterWriteRebind(cfg, loc) == [cfg EXCEPT !.datadir = loc]

\* write() rebinds its own name location and assigns no attribute of self.
ConfigAfterWrite(cfg, loc) == cfg

\* fmt = '%f': six decimals.
DefaultDecimals == 6

\* write(location, readme, header) with fmt left at its default: hdr tells
\* whether header has the three labels header[0..2]; rel tells whether
\* location is a relative path other than '.', in which case the README path
\* repeats the directory and open() finds no such directory.
write(hdr, rel) ==
    LET i == Probe(outdir, 1)
        dec == DefaultDecimals
        loc == Location(rel)
        csv == (i :> Savetxt(xdata[1], ydata[1], yerr[1], dec)) @@ outdir.csv
        rdm == (i :> [datadir |-> Some(config.datadir),
                      prefix  |-> Some(config.prefix),
                      indeces |-> indeces]) @@ outdir.readme
        written == {n \in DOMAIN outdir.csv : outdir.csv[n] # OldCsv}
        raised(err, msg) ==
            [op |-> "write", err |-> err, msg |-> msg, ret |-> None,
             outfile |-> 0, path |-> None]
    IN  /\ IF NoData
           THEN /\ last' = raised("CombinationError", "You must combine data first!")
                /\ outdir' = outdir
                /\ config' = config
           ELSE IF ~hdr
           THEN /\ last' = raised("IndexError", "")
                /\ outdir' = outdir
                /\ config' = ConfigAfterWrite(config, loc)
           ELSE IF rel
           THEN /\ Cardinality(written) < MaxWrites
                /\ last' = raised("IOError", "")
                /\ outdir' = [outdir EXCEPT !.csv = csv]
                /\ config' = ConfigAfterWrite(config, loc)
           ELSE /\ Cardinality(written) < MaxWrites
                /\ last' = [op |-> "write", err |-> "ok", msg |-> "",
                            ret |-> None, outfile |-> i,
                            path |-> Some(Outfile(loc, config.prefix, config.zpad, i))]
                /\ outdir' = [csv |-> csv, readme |-> rdm]
                /\ config' = ConfigAfterWrite(config, loc)
        /\ UNCHANGED <<others, disk, xdata, ydata, yerr, indeces, stamp, race, mpl>>

\* np.loadtxt(outfile, delimiter=',', unpack=True) on the data file of
\* counter i that a write() has made: the column-parsing step of combine().
loadtxt(i) ==
    /\ i \in DOMAIN outdir.csv
    /\ outdir.csv[i] # OldCsv
    /\ last' = [op |-> "loadtxt", err |-> "ok", msg |-> "",
                ret |-> Some(Loadtxt(outdir.csv[i])), outfile |-> i, path |-> None]
    /\ UNCHANGED <<others, disk, xdata, ydata, yerr, indeces, stamp, outdir, config, race, mpl>>

(***************************************************************************)
(* write() step by step, run by two instances of the tool on one output    *)
(* directory with one prefix.  Instance p has combined the file of index   *)
(* p; race.w[p] holds its fields and where it is in write().               *)
(***************************************************************************)
Procs == {1, 2}

\* The fields of an instance that has run combine([p]) on data directory d.
RaceFields(d, p) ==
    FieldsAfter(d, <<p>>, [xdata |-> None, ydata |-> None, yerr |-> None,
                           stamp |-> [x |-> None, y |-> None, e |-> None]])

\* The data file instance p writes.
RaceContent(p) ==
    LET f == race.w[p].f
    IN  Savetxt(f.xdata[1], f.ydata[1], f.yerr[1], DefaultDecimals)

\* Instances that take their steps whenever they like, also when the runs
\* are meant to follow one another.
TurnAny(p) == TRUE

\* Instance p may take a step: always when the instances run at the same
\* time; when they run one after the other, once those before it are done.
Turn(p) ==
    \/ race.mode = "concurrent"
    \/ race.mode = "sequential" /\ \A q \in Procs : q < p => race.w[q].pc = "done"

\* if self.xdata is None ... i = 1
wstart(p) ==
    /\ Turn(p)
    /\ race.w[p].pc = "start"
    /\ race.w[p].f.xdata # None
    /\ race' = [race EXCEPT !.w[p].pc = "probe", !.w[p].i = 1]
    /\ UNCHANGED <<others, disk, xdata, ydata, yerr, indeces, stamp, outdir, last, config, mpl>>

\* One pass of the probing loop: if not os.path.exists(outfile): break; i += 1
wprobe(p) ==
    /\ Turn(p)
    /\ race.w[p].pc = "probe"
    /\ race' = IF PathExists(outdir, race.w[p].i)
               THEN [race EXCEPT !.w[p].i = @ + 1]
               ELSE [race EXCEPT !.w[p].pc = "save"]
    /\ UNCHANGED <<others, disk, xdata, ydata, yerr, indeces, stamp, outdir, last, config, mpl>>

\* np.savetxt(outfile, ...): the data file is created, or replaced if it is
\* there by now.
wsave(p) ==
    /\ Turn(p)
    /\ race.w[p].pc = "save"
    /\ outdir' = [outdir EXCEPT !.csv = (race.w[p].i :> RaceContent(p)) @@ @]
    /\ race' = [race EXCEPT !.w[p].pc = "readme"]
    /\ UNCHANGED <<others, disk, xdata, ydata, yerr, indeces, stamp, last, config, mpl>>

\* The README file is written and outfile returned.
wreadme(p) ==
    /\ Turn(p)
    /\ race.w[p].pc = "readme"
    /\ outdir' = [outdir EXCEPT !.readme =
                     (race.w[p].i :> [datadir |-> Some(config.datadir),
                                      prefix  |-> Some(config.prefix),
                                      indeces |-> Some(<<p>>)]) @@ @]
    /\ race' = [race EXCEPT !.w[p].pc = "done"]
    /\ last' = [op |-> "write", err |-> "ok", msg |-> "", ret |-> None,
                outfile |-> race.w[p].i,
                path |-> Some(Outfile(Cwd, config.prefix, config.zpad, race.w[p].i))]
    /\ UNCHANGED <<others, disk, xdata, ydata, yerr, indeces, stamp, config, mpl>>

(***************************************************************************)
(* Plot settings: plot_settings.load_settings(), Plotter.plot() and        *)
(* plotutils.pgfsave().  mpl.heap holds the dictionaries of rc parameters  *)
(* there are, mpl.ref tells which of them plt.rcParams is; mpl.arg keeps   *)
(* the arguments of the last call and mpl.out what it printed.             *)
(***************************************************************************)
\* The rc parameters looked at, all of them switches.
RcKeys == {"pgf.rcfonts", "text.usetex"}
RcDicts == [RcKeys -> BOOLEAN]

\* plot_settings._styles.keys(); the module has no attribute styles.
PlotSettingsStyles == {"default", "test", "latex", "aps"}

\* The style names the callers pass: the default of Plotter.plot and the
\* argument of test_old_plot_settings, the default of RabiFlop.plot.
CallerStyles == {"web", "default"}

\* What a style file may hold: some of the rc parameters, with or without a
\* "comment" entry; or the file is not there.
Absent == [kind |-> "absent"]
StyleFiles ==
    {[kind |-> "json", rc |-> f, comment |-> c] :
        f \in UNION {[K -> BOOLEAN] : K \in SUBSET RcKeys}, c \in BOOLEAN}
    \cup {Absent}

\* plt.rcParams
RcParams(m) == m.heap[m.ref]

\* load_settings(style, show_info) when the file of the style is file: the
\* error it ends with, the dictionary plt.rcParams is afterwards and what
\* was printed.  An unknown style prints the known ones and goes on to use
\* rc_params, which was never bound.
LoadSettings(style, show, file, m) ==
    IF style \notin PlotSettingsStyles
    THEN [err |-> "UnboundLocalError", rc |-> RcParams(m), out |-> "style must be one of"]
    ELSE IF file = Absent
    THEN [err |-> "IOError", rc |-> RcParams(m), out |-> ""]
    ELSE [err |-> "ok",
          rc  |-> [k \in RcKeys |-> IF k \in DOMAIN file.rc THEN file.rc[k]
                                    ELSE RcParams(m)[k]],
          out |-> IF file.comment /\ show THEN "PLOT SETTINGS INFO" ELSE ""]

Called(op, err) ==
    [op |-> op, err |-> err, msg |-> "", ret |-> None, outfile |-> 0, path |-> None]

load_settings(style, show, file) ==
    LET r == LoadSettings(style, show, file, mpl)
    IN  /\ mpl' = [mpl EXCEPT !.heap[mpl.ref] = r.rc,
                              !.arg = Some([style |-> style, file |-> file]),
                              !.out = r.out]
        /\ last' = Called("load_settings", r.err)
        /\ UNCHANGED <<others, disk, xdata, ydata, yerr, indeces, stamp, outdir, config, race>>

\* Plotter(datadir, prefix) with suffix and zpad left at their defaults; as
\* history, the number of add_data() calls made (calls) and of those that
\* returned (added).
NewPlotter(prefix) ==
    [prefix |-> prefix, suffix |-> "dat", zpad |-> DefaultZpad,
     x |-> <<>>, y |-> <<>>, legend |-> <<>>, calls |-> 0, added |-> 0]

\* '{pre}{i:0{pad:d}d}.{suf}'.format(pre, i, pad, suf)
Fname(p, index) ==
    [pre |-> p.prefix, num |-> ZeroPad(DigitsOf(index), p.zpad), suf |-> p.suffix]

\* np.loadtxt(..., skiprows=1) and data[:,0], data[:,1]: the first row is
\* skipped; what is left must be a table of at least two rows (one row loads
\* as a 1-D array, none as an empty one, and data[:,0] raises IndexError).
AddDataErr(file) ==
    IF file.kind = "missing" THEN "IOError"
    ELSE IF file.kind = "bad" THEN "ValueError"
    ELSE IF Len(file.x) - 1 < 2 THEN "IndexError"
    ELSE "ok"

\* An add_data() that puts the legend in its list before it reads the file.
PlotterAfterAddLegendFirst(p, file, index, legend) ==
    LET entry == IF legend = None THEN Fname(p, index) ELSE [label |-> legend[1]]
    IN  IF AddDataErr(file) = "ok"
        THEN [p EXCEPT !.x = Append(@, Tail(file.x)),
                       !.y = Append(@, Tail(file.y)),
                       !.legend = Append(@, entry),
                       !.calls = @ + 1, !.added = @ + 1]
        ELSE [p EXCEPT !.legend = Append(@, entry), !.calls = @ + 1]

\* The Plotter after add_data(index, legend=legend) when the file of that
\* index is file: the three appends follow one another once the file has
\* loaded as a table, and none is made otherwise.
PlotterAfterAdd(p, file, index, legend) ==
    LET entry == IF legend = None THEN Fname(p, index) ELSE [label |-> legend[1]]
    IN  IF AddDataErr(file) = "ok"
        THEN [p EXCEPT !.x = Append(@, Tail(file.x)),
                       !.y = Append(@, Tail(file.y)),
                       !.legend = Append(@, entry),
                       !.calls = @ + 1, !.added = @ + 1]
        ELSE [p EXCEPT !.calls = @ + 1]

add_data(index, legend) ==
    /\ plotter.calls < MaxAdds
    /\ plotter' = PlotterAfterAdd(plotter, disk[index], index, legend)
    /\ last' = Called("add_data", AddDataErr(disk[index]))
    /\ UNCHANGED <<disk, xdata, ydata, yerr, indeces, stamp, outdir, config,
                   race, mpl, units, spectrum, glass>>

\* Plotter.plot(style) up to plt.figure(): asserts tells whether assert
\* statements are executed (they are not under python -O).
plot(style, asserts, file) ==
    LET r == IF Len(plotter.x) = 0
             THEN [err |-> "ValueError", rc |-> RcParams(mpl), out |-> ""]
             ELSE IF asserts
             THEN [err |-> "AttributeError", rc |-> RcParams(mpl), out |-> ""]
             ELSE LoadSettings(style, TRUE, file, mpl)
    IN  /\ mpl' = [mpl EXCEPT !.heap[mpl.ref] = r.rc,
                              !.arg = Some([style |-> style, file |-> file]),
                              !.out = r.out]
        /\ last' = Called("plot", r.err)
        /\ UNCHANGED <<others, disk, xdata, ydata, yerr, indeces, stamp, outdir, config, race>>

\* pgfsave(filename): rc = plt.rcParams names the dictionary plt.rcParams
\* is, no copy of it; texok tells whether xelatex ends with status 0
\* (check_call raises otherwise, and nothing after it runs).
pgfsave(texok) ==
    LET rc == mpl.ref
        off == [mpl EXCEPT !.heap[mpl.ref]["pgf.rcfonts"] = FALSE,
                           !.arg = None, !.out = ""]
    IN  /\ mpl' = IF texok THEN [off EXCEPT !.ref = rc] ELSE off
        /\ last' = Called("pgfsave", IF texok THEN "ok" ELSE "CalledProcessError")
        /\ UNCHANGED <<others, disk, xdata, ydata, yerr, indeces, stamp, outdir, config, race>>

(***************************************************************************)
(* mvdlib.quantum.transitions: the unit conversions.                       *)
(***************************************************************************)
\* The keys of _wl_units, of _f_units (as its display at line 24 means them)
\* and of _E_units.
WlUnits == {"nm", "um", "angstrom"}
FUnits == {"Hz", "kHz", "MHz", "GHz", "THz"}
EUnits == {"eV", "J"}

\* The functions that take unit names, and the tables of their first and
\* second unit-name arguments (None: the function has no second one).
Conversions ==
    {"wavenumber_to_frequency", "frequency_to_wavenumber",
     "frequency_to_wavelength", "frequency_to_energy",
     "wavelength_to_frequency", "wavelength_to_energy", "energy_to_frequency"}

Table1(fn) ==
    CASE fn \in {"wavenumber_to_frequency", "frequency_to_wavenumber",
                 "frequency_to_wavelength", "frequency_to_energy"} -> FUnits
      [] fn \in {"wavelength_to_frequency", "wavelength_to_energy"} -> WlUnits
      [] fn = "energy_to_frequency" -> EUnits

Table2(fn) ==
    CASE fn \in {"wavenumber_to_frequency", "frequency_to_wavenumber"} -> None
      [] fn = "frequency_to_wavelength" -> Some(WlUnits)
      [] fn \in {"frequency_to_energy", "wavelength_to_energy"} -> Some(EUnits)
      [] fn \in {"wavelength_to_frequency", "energy_to_frequency"} -> Some(FUnits)

\* The unit names tried: names of each table and names of none ('angstroms'
\* is what wavenumber_to_wavelength calls the unit 'angstrom').
UnitNames == {"nm", "angstrom", "angstroms", "Hz", "THz", "eV", "J", "mHz"}

\* The display of _f_units at line 24 lacks a comma between 1e9 and 'THz':
\* the module does not compile, and importing it raises SyntaxError.
ImportTransitions == "SyntaxError"

\* How the body of fn ends once the module is made to load, for a value
\* that is zero or not and the unit names u1, u2: a KeyError of a table
\* lookup inside try ... except KeyError becomes UnitsError; a division by
\* the float 0.0 raises; frequency_to_wavenumber looks its unit up outside
\* any try; frequency_to_energy divides by the string E_units itself.
Body(fn, zero, u1, u2) ==
    CASE fn = "wavenumber_to_frequency" ->
            IF u1 \notin FUnits THEN "UnitsError" ELSE "ok"
      [] fn = "frequency_to_wavenumber" ->
            IF u1 \notin FUnits THEN "KeyError" ELSE "ok"
      [] fn = "frequency_to_wavelength" ->
            IF u1 \notin FUnits THEN "UnitsError"
            ELSE IF zero THEN "ZeroDivisionError"
            ELSE IF u2 \notin WlUnits THEN "UnitsError" ELSE "ok"
      [] fn = "frequency_to_energy" ->
            IF u1 \notin FUnits THEN "UnitsError" ELSE "TypeError"
      [] fn = "wavelength_to_frequency" ->
            IF u1 \notin WlUnits THEN "UnitsError"
            ELSE IF zero THEN "ZeroDivisionError"
            ELSE IF u2 \notin FUnits THEN "UnitsError" ELSE "ok"
      [] fn = "wavelength_to_energy" ->
            IF u1 \notin WlUnits THEN "UnitsError"
            ELSE IF zero THEN "ZeroDivisionError"
            ELSE IF u2 \notin EUnits THEN "UnitsError" ELSE "ok"
      [] fn = "energy_to_frequency" ->
            IF u1 \notin EUnits THEN "UnitsError"
            ELSE IF u2 \notin FUnits THEN "UnitsError" ELSE "ok"

\* from mvdlib.quantum import transitions; transitions.fn(value, u1, u2):
\* the import raises and fn is never entered.  units keeps the arguments
\* and, as body, how fn would have ended.
convert(fn, zero, u1, u2) ==
    LET a2 == IF Table2(fn) = None THEN None ELSE Some(u2)
    IN  /\ units' = Some([fn |-> fn, zero |-> zero, u1 |-> u1, u2 |-> a2,
                          body |-> Body(fn, zero, u1, u2)])
        /\ last' = Called(fn, IF ImportTransitions = "ok"
                              THEN Body(fn, zero, u1, u2) ELSE ImportTransitions)
        /\ UNCHANGED <<disk, xdata, ydata, yerr, indeces, stamp, outdir, config,
                       race, mpl, spectrum, plotter, glass>>

(***************************************************************************)
(* oceanoptics.OOSpectrum.  spectrum holds lmbda and response, and as      *)
(* history the number of load_sample() calls made (calls), of those that   *)
(* returned (loads), and for each field the call that assigned it.         *)
(***************************************************************************)
\* OOSpectrum()
NewSpectrum ==
    [lmbda |-> None, response |-> None, hl |-> 0, hr |-> 0, calls |-> 0, loads |-> 0]

\* The files load_sample() is tried on: absent, not numeric, one row of
\* data, tables of several rows.
SpectrumFiles == {Missing, Bad, FileOne, FileA, FileB, FileC}

\* np.loadtxt raises on an absent or non-numeric file; one row of data
\* loads as a 1-D array, on which data[:,0] raises IndexError.
LoadSampleErr(file) ==
    IF file.kind = "missing" THEN "IOError"
    ELSE IF file.kind = "bad" THEN "ValueError"
    ELSE IF Len(file.x) < 2 THEN "IndexError"
    ELSE "ok"

\* A load_sample() that takes the response first, data[..., 1], which a
\* 1-D array has too, and then fails on data[:,0].
SpectrumAfterLoadResponseFirst(s, file) ==
    LET id == s.calls + 1
    IN  IF LoadSampleErr(file) = "ok"
        THEN [lmbda |-> Some(file.x), response |-> Some(file.y),
              hl |-> id, hr |-> id, calls |-> id, loads |-> s.loads + 1]
        ELSE IF LoadSampleErr(file) = "IndexError"
        THEN [s EXCEPT !.response = Some(file.y), !.hr = id, !.calls = id]
        ELSE [s EXCEPT !.calls = id]

\* The fields after load_sample(file): both columns are assigned once the
\* file has loaded as a table, nothing otherwise.
SpectrumAfterLoad(s, file) ==
    LET id == s.calls + 1
    IN  IF LoadSampleErr(file) = "ok"
        THEN [lmbda |-> Some(file.x), response |-> Some(file.y),
              hl |-> id, hr |-> id, calls |-> id, loads |-> s.loads + 1]
        ELSE [s EXCEPT !.calls = id]

OOFrame ==
    UNCHANGED <<disk, xdata, ydata, yerr, indeces, stamp, outdir, config,
                race, mpl, units, plotter, glass>>

load_sample(file) ==
    /\ spectrum.calls < MaxLoads
    /\ spectrum' = SpectrumAfterLoad(spectrum, file)
    /\ last' = Called("load_sample", LoadSampleErr(file))
    /\ OOFrame

NotLoadedMsg == "You must load data first."

\* fit_gaussian(p0): converges tells whether curve_fit finds parameters (it
\* raises RuntimeError when it does not).
fit_gaussian(converges) ==
    /\ last' = IF spectrum.response = None
               THEN [Called("fit_gaussian", "RuntimeError") EXCEPT !.msg = NotLoadedMsg]
               ELSE IF ~converges
               THEN [Called("fit_gaussian", "RuntimeError")
                        EXCEPT !.msg = "Optimal parameters not found"]
               ELSE Called("fit_gaussian", "ok")
    /\ UNCHANGED spectrum
    /\ OOFrame

\* plot_spectrum(p, p_type): fit tells whether p is given, gaussian whether
\* p_type is 'gaussian'.
plot_spectrum(fit, gaussian) ==
    /\ last' = IF spectrum.response = None
               THEN [Called("plot_spectrum", "RuntimeError") EXCEPT !.msg = NotLoadedMsg]
               ELSE IF fit /\ ~gaussian
               THEN [Called("plot_spectrum", "ValueError")
                        EXCEPT !.msg = "p_type must be one of: 'gaussian'"]
               ELSE Called("plot_spectrum", "ok")
    /\ UNCHANGED spectrum
    /\ OOFrame

(***************************************************************************)
(* Glass of optics.glass and of mvdlib.optics.glass.  A wavelength is       *)
(* [m, e], the number m * 10^e; an ndarray argument is followed through    *)
(* one of its elements, each element being treated alike.  Refractive      *)
(* indices and Sellmeier coefficients are in thousandths.                  *)
(***************************************************************************)
\* _m_to_micron = 1e6, as a power of ten
MToMicron == 6

\* BK7 = Glass([1.03961212, 0.231792344, 1.01046945],
\*             [6.00069867e-3, 2.00179144e-2, 1.03560653e2])
BK7 == [B |-> <<1040, 232, 1010>>, C |-> <<6, 20, 103561>>]

GlassModules == {"optics.glass", "mvdlib.optics.glass"}
ArgKinds == {"float", "ndarray"}

\* 600e-9, 800e-9 and 1000e-9, the wavelengths of the examples of the module.
Wavelengths == {[m |-> k, e |-> -7] : k \in {6, 8, 10}}

\* lmbda * _m_to_micron
InMicron(wl) == [wl EXCEPT !.e = @ + MToMicron]

\* What the caller's object holds once sellmeier() has run: optics.glass
\* scales with lmbda *= _m_to_micron, which for an ndarray multiplies the
\* caller's array in place and for a float binds the local name to a new
\* float; mvdlib.optics.glass binds the product to a name of its own.
ArgumentAfter(module, kind, wl) ==
    IF module = "optics.glass" /\ kind = "ndarray" THEN InMicron(wl) ELSE wl

\* a / b cut towards zero, for a and b of either sign.
Quot(a, b) ==
    IF (a < 0) = (b < 0) THEN Abs(a) \div Abs(b) ELSE -(Abs(a) \div Abs(b))

RECURSIVE ShiftDown(_, _)
ShiftDown(c, k) == IF k = 0 \/ c = 0 THEN c ELSE ShiftDown(c \div 10, k - 1)

\* B*lmbda**2/(lmbda**2 - C) for lmbda = w.m * 10^w.e: numerator and
\* denominator of lmbda**2/(lmbda**2 - C) are both taken 1000 * 10^(-2*w.e)
\* times.
Term(b, c, w) ==
    LET num == 1000 * w.m * w.m
        den == IF w.e < 0 THEN num - c * Pow10(-2 * w.e)
               ELSE num - ShiftDown(c, 2 * w.e)
    IN  Quot(b * num, den)

\* n_sq = 1. and the loop over the three coefficients.
NSquared(g, w) ==
    1000 + Term(g.B[1], g.C[1], w) + Term(g.B[2], g.C[2], w) + Term(g.B[3], g.C[3], w)

\* np.sqrt(n_sq)
Sellmeier(g, w) == Isqrt(NSquared(g, w) * 1000)

\* R2='inf' and d=None are None here; the lengths are in centimetres.
Lenses ==
    {[R1 |-> 5, R2 |-> None, d |-> None],
     [R1 |-> 5, R2 |-> Some(-5), d |-> None],
     [R1 |-> 5, R2 |-> Some(-5), d |-> Some(1)]}

\* The fraction n/d for d of either sign.
Fraction(n, d) == IF d < 0 THEN Rat(-n, -d) ELSE Rat(n, d)

\* What focal_length() does with n = self.sellmeier(lmbda):
\* 1/((n - 1)*(1/R1)) for R2 'inf'; otherwise A = n - 1,
\* B = 1/R1 - 1/R2 + A*d/(n*R1*R2) and 1/(A*B), no thickness being an error.
FocalLength(n, lens) ==
    IF lens.R2 = None
    THEN [err |-> "ok", val |-> Some(Fraction(1000 * lens.R1, n - 1000))]
    ELSE IF lens.d = None
    THEN [err |-> "RuntimeError", val |-> None]
    ELSE LET R1 == lens.R1
             R2 == lens.R2[1]
             d  == lens.d[1]
         IN  [err |-> "ok",
              val |-> Some(Fraction(1000 * n * R1 * R2,
                                    (n - 1000) * (n * (R2 - R1) + (n - 1000) * d)))]

\* A Glass, the wavelength object its caller holds (wl, at first orig) and,
\* as history, the calls made with that object and what they returned.
NewGlass(module, kind, wl) ==
    [module |-> module, kind |-> kind, orig |-> wl, wl |-> wl, results |-> <<>>]

GlassFrame ==
    UNCHANGED <<disk, xdata, ydata, yerr, indeces, stamp, outdir, config, race,
                mpl, units, spectrum, plotter>>

\* BK7.sellmeier(wl)
sellmeier ==
    /\ Len(glass.results) < MaxCalls
    /\ glass' = [glass EXCEPT
                    !.wl = ArgumentAfter(glass.module, glass.kind, @),
                    !.results = Append(@, [op |-> "sellmeier", lens |-> None, err |-> "ok",
                                           val |-> Some(Sellmeier(BK7, InMicron(glass.wl)))])]
    /\ last' = Called("sellmeier", "ok")
    /\ GlassFrame

\* BK7.focal_length(wl, R1, R2, d): sellmeier() runs first, whatever the lens.
focal_length(lens) ==
    LET r == FocalLength(Sellmeier(BK7, InMicron(glass.wl)), lens)
    IN  /\ Len(glass.results) < MaxCalls
        /\ glass' = [glass EXCEPT
                        !.wl = ArgumentAfter(glass.module, glass.kind, @),
                        !.results = Append(@, [op |-> "focal_length", lens |-> Some(lens),
                                               err |-> r.err, val |-> r.val])]
        /\ last' = Called("focal_length", r.err)
        /\ GlassFrame

(***************************************************************************)
(* The specifications.                                                     *)
(***************************************************************************)
\* The output directories before the first write(): data files and README
\* files of earlier runs, numbered from 1.
OutDirs ==
    {[csv |-> [n \in 1..c |-> OldCsv], readme |-> [n \in 1..r |-> OldReadme]]
        : c \in 0..MaxPre, r \in 0..MaxPre}

\* No instance runs write() step by step; matplotlib is not looked at; no
\* conversion is called, no OOSpectrum, Plotter or wavelength object is there.
Idle == units = None /\ spectrum = None /\ plotter = None /\ glass = None
NoRace == [mode |-> "none", w |-> <<>>]
NoMpl == [ref |-> 0, heap |-> <<>>, arg |-> None, out |-> ""]

\* A Combiner as __init__ leaves it, on data directory d and output directory o.
Fresh(d, o) ==
    /\ disk = d
    /\ xdata = None
    /\ ydata = None
    /\ yerr = None
    /\ indeces = None
    /\ stamp = [x |-> None, y |-> None, e |-> None]
    /\ outdir = o
    /\ last = [op |-> "init", err |-> "ok", msg |-> "", ret |-> None,
               outfile |-> 0, path |-> None]
    /\ config = Construct(".", "rabi_")

\* Any sequence of calls on one Combiner.
Init ==
    /\ \E d \in SeqDisks, o \in OutDirs : Fresh(d, o)
    /\ race = NoRace
    /\ mpl = NoMpl
    /\ Idle

Next ==
    \/ \E idx \in SeqLists : combine(idx)
    \/ \E hdr \in BOOLEAN, rel \in BOOLEAN : write(hdr, rel)

Spec == Init /\ [][Next]_vars

\* One call on a new Combiner, over every data directory and list of indices.
InitOnce ==
    /\ \E d \in Disks : Fresh(d, [csv |-> <<>>, readme |-> <<>>])
    /\ race = NoRace
    /\ mpl = NoMpl
    /\ Idle

NextOnce ==
    \/ last.op = "init" /\ \E idx \in IndexLists(disk) : combine(idx)
    \/ last.op = "init" /\ \E hdr \in BOOLEAN, rel \in BOOLEAN : write(hdr, rel)

SpecOnce == InitOnce /\ [][NextOnce]_vars

\* One combine() on a new Combiner, then one write(), then the data file
\* read back.
NextRoundTrip ==
    \/ last.op = "init" /\ \E idx \in IndexLists(disk) : combine(idx)
    \/ last.op = "combine" /\ \E hdr \in BOOLEAN, rel \in BOOLEAN : write(hdr, rel)
    \/ last.op = "write" /\ \E i \in DOMAIN outdir.csv : loadtxt(i)

SpecRoundTrip == InitOnce /\ [][NextRoundTrip]_vars

\* Two instances about to call write(), at the same time or one after the
\* other, each with its own combined data.
RaceDisks == {d \in SeqDisks : \A p \in Procs : CombineErr(d, <<p>>) = "ok"}

InitRace ==
    \E d \in RaceDisks, o \in OutDirs, mode \in {"concurrent", "sequential"} :
        /\ Fresh(d, o)
        /\ race = [mode |-> mode,
                   w |-> [p \in Procs |->
                            [pc |-> "start", i |-> 0, f |-> RaceFields(d, p)]]]
        /\ mpl = NoMpl
        /\ Idle

NextRace ==
    \/ \E p \in Procs : wstart(p)
    \/ \E p \in Procs : wprobe(p)
    \/ \E p \in Procs : wsave(p)
    \/ \E p \in Procs : wreadme(p)

SpecRace == InitRace /\ [][NextRace]_vars

\* Any sequence of calls that set or save plot settings, from any values of
\* the rc parameters.
InitPlot ==
    /\ Fresh(ExampleDisk, [csv |-> <<>>, readme |-> <<>>])
    /\ race = NoRace
    /\ \E rc \in RcDicts : mpl = [ref |-> 1, heap |-> <<rc>>, arg |-> None, out |-> ""]
    /\ units = None /\ spectrum = None /\ glass = None
    /\ plotter \in {NewPlotter("rabi_"),
                    PlotterAfterAdd(NewPlotter("rabi_"), FileA, 1, None)}

NextPlot ==
    \/ \E style \in PlotSettingsStyles \cup CallerStyles, show \in BOOLEAN,
          file \in StyleFiles : load_settings(style, show, file)
    \/ \E style \in PlotSettingsStyles \cup CallerStyles,
          asserts \in BOOLEAN, file \in StyleFiles :
              plot(style, asserts, file)
    \/ \E texok \in BOOLEAN : pgfsave(texok)

SpecPlot == InitPlot /\ [][NextPlot]_vars

\* Any sequence of add_data() and plot() calls on one Plotter, on the data
\* directories of SeqDisks.
PlotterStyles == {"web", "default"}
PlotterStyleFiles == {Absent, [kind |-> "json", rc |-> ("text.usetex" :> TRUE), comment |-> TRUE]}

InitPlotter ==
    /\ \E d \in SeqDisks : Fresh(d, [csv |-> <<>>, readme |-> <<>>])
    /\ race = NoRace
    /\ mpl = [ref |-> 1, heap |-> <<[k \in RcKeys |-> FALSE]>>, arg |-> None, out |-> ""]
    /\ units = None /\ spectrum = None /\ glass = None
    /\ plotter = NewPlotter("rabi_")

NextPlotter ==
    \/ \E index \in DOMAIN disk, legend \in {None, Some("run")} : add_data(index, legend)
    \/ \E style \in PlotterStyles, asserts \in BOOLEAN, file \in PlotterStyleFiles :
          plot(style, asserts, file)

SpecPlotter == InitPlotter /\ [][NextPlotter]_vars

\* Any sequence of calls on BK7 with one wavelength object.
InitGlass ==
    /\ Fresh(ExampleDisk, [csv |-> <<>>, readme |-> <<>>])
    /\ race = NoRace
    /\ mpl = NoMpl
    /\ units = None /\ spectrum = None /\ plotter = None
    /\ \E module \in GlassModules, kind \in ArgKinds, wl \in Wavelengths :
          glass = NewGlass(module, kind, wl)

NextGlass ==
    \/ sellmeier
    \/ \E lens \in Lenses : focal_length(lens)

SpecGlass == InitGlass /\ [][NextGlass]_vars

\* Any sequence of calls on one OOSpectrum.
InitSpectrum ==
    /\ Fresh(ExampleDisk, [csv |-> <<>>, readme |-> <<>>])
    /\ race = NoRace
    /\ mpl = NoMpl
    /\ units = None /\ plotter = None /\ glass = None
    /\ spectrum = NewSpectrum

NextSpectrum ==
    \/ \E file \in SpectrumFiles : load_sample(file)
    \/ \E converges \in BOOLEAN : fit_gaussian(converges)
    \/ \E fit \in BOOLEAN, gaussian \in BOOLEAN : plot_spectrum(fit, gaussian)

SpecSpectrum == InitSpectrum /\ [][NextSpectrum]_vars

\* Any sequence of conversion calls.
InitUnits ==
    /\ Fresh(ExampleDisk, [csv |-> <<>>, readme |-> <<>>])
    /\ race = NoRace
    /\ mpl = NoMpl
    /\ Idle

NextUnits ==
    \E fn \in Conversions, zero \in BOOLEAN, u1 \in UnitNames, u2 \in UnitNames :
        convert(fn, zero, u1, u2)

SpecUnits == InitUnits /\ [][NextUnits]_vars

(***************************************************************************)
(* Properties.                                                             *)
(***************************************************************************)
\* The last call was combine(idx); Idx is that idx.
Combined == last.op = "combine"
Idx == indeces[1]
\* Every file the last combine() was given loads as a series.
AllLoad == \A k \in DOMAIN Idx : disk[Idx[k]].kind = "series"

\* C1: after any sequence of combine() and write() calls, xdata, ydata and
\* yerr are all None, or all set, stored by one and the same combine() call
\* and equal to what that call computed; a failing call leaves no part of a
\* result behind.
C1_ResultWhole ==
    \/ /\ xdata = None /\ ydata = None /\ yerr = None
       /\ stamp.x = None /\ stamp.y = None /\ stamp.e = None
    \/ /\ xdata # None /\ ydata # None /\ yerr # None
       /\ stamp.x # None /\ stamp.y = stamp.x /\ stamp.e = stamp.x
       /\ xdata[1] = disk[stamp.x[1][1]].x
       /\ ydata[1] = CombineY(disk, stamp.x[1])
       /\ yerr[1] = CombineE(disk, stamp.x[1])

\* C1 witness: a result is stored and a later combine() has raised while
\* examining the loaded columns.
C1_Witness ==
    /\ Combined /\ last.err = "IndexError"
    /\ xdata # None /\ stamp.x # indeces

\* C2: whenever combine() returns, the three returned sequences have the
\* length of the first series.
C2_SameLength ==
    (Combined /\ last.err = "ok") =>
        LET n == Len(disk[Idx[1]].x)
        IN  /\ Len(last.ret[1][1]) = n
            /\ Len(last.ret[1][2]) = n
            /\ Len(last.ret[1][3]) = n

\* C2 witness: a combine() over three indices, not all the same, has returned.
C2_Witness ==
    /\ Combined /\ last.err = "ok"
    /\ Len(Idx) = 3 /\ Idx[1] # Idx[2]

SumOfSquares(col) == NpSum([k \in DOMAIN col |-> col[k] * col[k]])

\* C3: whenever combine() over N series returns, at every position i the
\* mean is (sum of the y[i]) / N and the deviation is the population one:
\* its square is (N * sum of y[i]^2 - (sum of y[i])^2) / N^2.
C3_MeanAndPopulationStd ==
    (Combined /\ last.err = "ok") =>
        LET N == Len(Idx)
            mean == last.ret[1][2]
            var == last.ret[1][3]
        IN  \A i \in DOMAIN last.ret[1][1] :
                LET col == Column(disk, Idx, i)
                    S == NpSum(col)
                    Q == SumOfSquares(col)
                IN  /\ mean[i].d > 0 /\ var[i].d > 0
                    /\ mean[i].n * N = S * mean[i].d
                    /\ var[i].n * N * N = (N * Q - S * S) * var[i].d

\* C3 witness: the documented scenario, y = [1,2,3], [3,2,1], [2,2,2] gives
\* the mean [2,2,2] and the variance [2/3, 0, 2/3].
C3_Example ==
    /\ disk = ExampleDisk /\ Combined /\ indeces = Some(<<1, 2, 3>>)
    /\ last.ret = Some(<< <<0, 1, 2>>,
                          <<[n |-> 2, d |-> 1], [n |-> 2, d |-> 1], [n |-> 2, d |-> 1]>>,
                          <<[n |-> 2, d |-> 3], [n |-> 0, d |-> 1], [n |-> 2, d |-> 3]>> >>)

\* C4 as claimed: a combine() with exactly one index (of a file that loads)
\* returns, with the series' y as the mean and zero deviation everywhere.
C4_SingleIndexSucceeds ==
    (Combined /\ Len(Idx) = 1 /\ AllLoad) =>
        /\ last.err = "ok"
        /\ last.ret[1][2] = [i \in DOMAIN disk[Idx[1]].y |-> [n |-> disk[Idx[1]].y[i], d |-> 1]]
        /\ last.ret[1][3] = [i \in DOMAIN disk[Idx[1]].y |-> [n |-> 0, d |-> 1]]

Count(p, v) == Cardinality({k \in DOMAIN p : p[k] = v})
IsPermutation(p, q) ==
    /\ Len(p) = Len(q)
    /\ \A v \in DOMAIN disk : Count(p, v) = Count(q, v)

\* C5 as claimed: the outcome of combine() does not depend on which series
\* is loaded first: on every permutation of the list of indices (of files
\* that load) it raises if it raised on the list, and returns the same mean
\* and deviation if it returned on the list.
C5_OrderIndependent ==
    (Combined /\ AllLoad) =>
        \A p \in SeqsOf(DOMAIN disk, Len(Idx)) :
            IsPermutation(p, Idx) =>
                \/ last.err # "ok" /\ CombineErr(disk, p) # "ok"
                \/ /\ last.err = "ok" /\ CombineErr(disk, p) = "ok"
                   /\ CombineY(disk, p) = last.ret[1][2]
                   /\ CombineE(disk, p) = last.ret[1][3]

\* C6 as claimed: when some loaded series' x-axis differs from the first
\* series' x-axis, combine() raises: no combination with a mismatched
\* x-axis ever returns a result.
C6_MismatchNeverReturns ==
    (Combined /\ AllLoad /\ \E k \in DOMAIN Idx : disk[Idx[k]].x # disk[Idx[1]].x) =>
        last.err # "ok"

\* C7 as claimed: combine() on the empty list raises CombinationError.
C7_EmptyRaisesCombinationError ==
    (Combined /\ Idx = <<>>) => last.err = "CombinationError"

\* C8 as claimed: when some loaded series has another number of samples
\* than the first, combine() raises CombinationError (here for series of at
\* least two samples each).
C8_LengthMismatchRaises ==
    (Combined /\ AllLoad
        /\ (\A j \in DOMAIN Idx : Len(disk[Idx[j]].x) > 1)
        /\ \E k \in DOMAIN Idx : Len(disk[Idx[k]].x) # Len(disk[Idx[1]].x)) =>
        last.err = "CombinationError"

LoadError(c) == IF c.kind = "missing" THEN "IOError" ELSE "ValueError"

\* C9: a combine() over a list holding the index of a missing or unparsable
\* file raises and returns nothing, and xdata, ydata, yerr stay what they
\* were; when the series before that file all have the first series' x-axis,
\* the error raised is the one of loading that file.
C9_LoadFailureStops ==
    [][ (last'.op = "combine"
           /\ \E k \in DOMAIN indeces'[1] : disk[indeces'[1][k]].kind # "series") =>
            /\ last'.err \in {"IOError", "ValueError", "CombinationError"}
            /\ last'.ret = None
            /\ xdata' = xdata /\ ydata' = ydata /\ yerr' = yerr
            /\ \A k \in DOMAIN indeces'[1] :
                  (/\ disk[indeces'[1][k]].kind # "series"
                   /\ \A j \in 1..(k - 1) :
                         /\ disk[indeces'[1][j]].kind = "series"
                         /\ disk[indeces'[1][j]].x = disk[indeces'[1][1]].x)
                  => last'.err = LoadError(disk[indeces'[1][k]])
      ]_vars

\* C9 witness: a result of combine([1]) is stored and combine([1, 2]) has
\* raised on loading the second file.
C9_Witness ==
    /\ Combined /\ last.err \in {"IOError", "ValueError"}
    /\ indeces = Some(<<1, 2>>) /\ stamp.x = Some(<<1>>)
    /\ xdata = Some(disk[1].x)

\* C10: write() on a Combiner on which no combine() has returned raises
\* the error "You must combine data first!" and leaves the output directory
\* as it was.
C10_WriteBeforeCombine ==
    [][ (last'.op = "write" /\ stamp.x = None) =>
            /\ last'.err = "CombinationError"
            /\ last'.msg = "You must combine data first!"
            /\ outdir' = outdir
      ]_vars

\* C10 witness: write() has raised on a Combiner whose only combine() raised.
C10_Witness ==
    /\ last.op = "write" /\ last.err = "CombinationError"
    /\ indeces # None /\ stamp.x = None

\* The last call was a write() that returned.
Wrote == last.op = "write" /\ last.err = "ok"

\* C11 as claimed: a write() that returns has created exactly two files, a
\* data file and a README file, neither of which existed before, and has
\* left every file that existed as it was.
C11_WriteCreatesTwoNewFiles ==
    [][ (last'.op = "write" /\ last'.err = "ok") =>
            LET i == last'.outfile
            IN  /\ i \notin DOMAIN outdir.csv
                /\ i \notin DOMAIN outdir.readme
                /\ DOMAIN outdir'.csv = DOMAIN outdir.csv \cup {i}
                /\ DOMAIN outdir'.readme = DOMAIN outdir.readme \cup {i}
                /\ \A n \in DOMAIN outdir.csv : outdir'.csv[n] = outdir.csv[n]
                /\ \A n \in DOMAIN outdir.readme : outdir'.readme[n] = outdir.readme[n]
      ]_vars

\* C14 as claimed: the indices in the README file a write() has written are
\* those of the combine() call that stored the data written beside it.
C14_ProvenanceMatchesData ==
    [][ (last'.op = "write" /\ last'.err = "ok") =>
            outdir'.readme[last'.outfile].indeces = stamp.x
      ]_vars

\* C15: the x-axis combine() returns is the x of the series of the first
\* index, in that series' order.
C15_FirstSeriesAxis ==
    (Combined /\ last.err = "ok") => last.ret[1][1] = disk[Idx[1]].x

\* C15 witness: combine() has returned for two series whose x sequences
\* differ, with the x of the first.
C15_Witness ==
    /\ Combined /\ last.err = "ok" /\ Len(Idx) = 2
    /\ disk[Idx[2]].x # disk[Idx[1]].x
    /\ last.ret[1][1] = disk[Idx[1]].x

\* C13: the data file a write() creates has the smallest counter from 1 on
\* whose data file was absent, found within as many probes as there are
\* files plus one; the path a write() returns is in the directory asked for
\* and its name is the prefix, '_combined_', the decimal digits of that
\* counter filled with zeros in front to zpad digits (never cut), '.csv'.
C13_SmallestAbsentCounter ==
    [][ (last'.op = "write" /\ outdir'.csv # outdir.csv) =>
            LET old == DOMAIN outdir.csv
                new == DOMAIN outdir'.csv \ old
            IN  /\ Cardinality(new) = 1
                /\ \A i \in new :
                    /\ i >= 1
                    /\ \A j \in 1..(i - 1) : j \in old
                    /\ i <= Cardinality(old) + 1
                    /\ last'.err = "ok" =>
                        LET name == last'.path[1].name
                        IN  /\ last'.outfile = i
                            /\ last'.path[1].dir = Cwd
                            /\ name.pre = config.prefix
                            /\ name.mid = "_combined_"
                            /\ name.ext = ".csv"
                            /\ \A k \in DOMAIN name.num : name.num[k] \in 0..9
                            /\ DigitsValue(name.num) = i
                            /\ Len(name.num) >= config.zpad
                            /\ Len(name.num) > config.zpad => name.num[1] # 0
      ]_vars

\* C13 witness: write() has found the data file of counter 1 present and has
\* returned the name with counter 0002.
C13_Witness ==
    /\ Wrote
    /\ last.outfile = 2
    /\ outdir.csv[1] = OldCsv
    /\ last.path[1].name = [pre |-> "rabi_", mid |-> "_combined_",
                            num |-> <<0, 0, 0, 2>>, ext |-> ".csv"]

\* C18: no combine() and no write(), returning or raising, changes datadir,
\* prefix, zpad, suffix, delimiter or skiprows.
C18_RequestFieldsFrozen == [][config' = config]_vars

\* C18 witness: after a combine() that returned, one that raised and a
\* write() that returned, the six fields are those of the construction.
C18_Witness ==
    /\ Wrote
    /\ indeces # stamp.x
    /\ config = [datadir |-> Cwd, prefix |-> "rabi_", zpad |-> 4,
                 suffix |-> "dat", delimiter |-> None, skiprows |-> 0]

\* Whole numbers of any size, as sequences of digits to the base 1000, the
\* lowest first.
RECURSIVE BigOf(_)
BigOf(n) == IF n < 1000 THEN <<n>> ELSE <<n % 1000>> \o BigOf(n \div 1000)

RECURSIVE BigCarry(_, _)
BigCarry(ds, c) ==
    IF ds = <<>> THEN (IF c = 0 THEN <<>> ELSE BigOf(c))
    ELSE <<(ds[1] + c) % 1000>> \o BigCarry(Tail(ds), (ds[1] + c) \div 1000)

RECURSIVE BigDot(_, _, _, _)
BigDot(a, b, k, i) ==
    IF i > Len(a) THEN 0
    ELSE (IF k - i + 1 \in DOMAIN b THEN a[i] * b[k - i + 1] ELSE 0)
         + BigDot(a, b, k, i + 1)

BigMul(a, b) ==
    BigCarry([k \in 1..(Len(a) + Len(b) - 1) |-> BigDot(a, b, k, 1)], 0)

BigLeq(a, b) ==
    LET A(k) == IF k \in DOMAIN a THEN a[k] ELSE 0
        B(k) == IF k \in DOMAIN b THEN b[k] ELSE 0
        diff == {k \in DOMAIN a \cup DOMAIN b : A(k) # B(k)}
    IN  \/ diff = {}
        \/ LET top == CHOOSE k \in diff : \A j \in diff : j <= k
           IN  A(top) < B(top)

\* The fraction p has no more decimals than the output format; Units(p) is p
\* in units of the last decimal.
Unit == Pow10(DefaultDecimals)
Printable(p) == Unit % p.d = 0
Units(p) == p.n * (Unit \div p.d)

\* |p - q| <= half a unit, for fractions p (printable) and q:
\* |2 * (Units(p) * q.d - q.n * Unit)| <= q.d.
Near(p, q) == 2 * Abs(Units(p) * q.d - q.n * Unit) <= q.d

\* |p - sqrt(v)| <= half a unit, for fractions p >= 0 (printable) and v >= 0:
\* with a = Units(p), (2a - 1)^2 * v.d <= 4 * Unit^2 * v.n (or a = 0) and
\* 4 * Unit^2 * v.n <= (2a + 1)^2 * v.d.
NearRoot(p, v) ==
    LET a == Units(p)
        sq(b) == BigMul(BigOf(b), BigOf(b))
        vn == BigMul(BigOf(4 * v.n), sq(Unit))
    IN  /\ a = 0 \/ BigLeq(BigMul(sq(2 * a - 1), BigOf(v.d)), vn)
        /\ BigLeq(vn, BigMul(sq(2 * a + 1), BigOf(v.d)))

\* C16: the columns np.loadtxt(..., delimiter=',') reads from the data file
\* a write() has made are as long as xdata, ydata and yerr, and each value
\* read is within half a unit of the last decimal of the output format of
\* the value that was written: x, the mean, the standard deviation.
C16_RoundTrip ==
    last.op = "loadtxt" =>
        LET cols == last.ret[1]
        IN  /\ \A c \in 1..3 : Len(cols[c]) = Len(xdata[1])
            /\ \A k \in DOMAIN xdata[1] :
                /\ \A c \in 1..3 : Printable(cols[c][k])
                /\ Near(cols[1][k], Rat(xdata[1][k], 1))
                /\ Near(cols[2][k], ydata[1][k])
                /\ NearRoot(cols[3][k], yerr[1][k])

\* C16 witness: a data file has been read back whose means are thirds and
\* whose deviations are irrational: the third row of the example combined
\* over the indices 1, 1, 2 reads 2, 2.333333 and 0.942809 (the root of 8/9).
C16_Witness ==
    /\ last.op = "loadtxt"
    /\ xdata[1][3] = 2
    /\ ydata[1][3] = [n |-> 7, d |-> 3]
    /\ yerr[1][3] = [n |-> 8, d |-> 9]
    /\ last.ret[1][1][3] = [n |-> 2, d |-> 1]
    /\ last.ret[1][2][3] = [n |-> 2333333, d |-> 1000000]
    /\ last.ret[1][3][3] = [n |-> 942809, d |-> 1000000]

\* Both instances have returned from write().
BothDone == race.mode # "none" /\ \A p \in Procs : race.w[p].pc = "done"

\* C12: when one write() runs after the other has returned, the two return
\* data files of different counters, and after the second the data file of
\* the first still holds what the first wrote (and that of the second what
\* the second wrote).
C12_SuccessiveWritesDistinct ==
    (race.mode = "sequential" /\ BothDone) =>
        /\ race.w[1].i # race.w[2].i
        /\ \A p \in Procs : outdir.csv[race.w[p].i] = RaceContent(p)

\* C12 witness: two write() calls in a row into an empty directory have
\* made the data files 1 and 2, with different contents.
C12_Witness ==
    /\ race.mode = "sequential" /\ BothDone
    /\ race.w[1].i = 1 /\ race.w[2].i = 2
    /\ outdir.csv[1] = RaceContent(1)
    /\ outdir.csv[2] = RaceContent(2)
    /\ RaceContent(1) # RaceContent(2)

\* Both instances have returned the same data file.
Collision == BothDone /\ race.w[1].i = race.w[2].i

\* C17: two write() calls return the same data file only when they run at
\* the same time, never when one follows the other.
C17_CollisionOnlyConcurrent == Collision => race.mode = "concurrent"

\* C17 witness: run at the same time, both instances found the same name
\* absent before either created it; both returned it, and the file holds the
\* data of one of them only.
C17_Witness ==
    /\ race.mode = "concurrent" /\ Collision
    /\ RaceContent(1) # RaceContent(2)
    /\ \E p \in Procs : outdir.csv[race.w[1].i] = RaceContent(p)
    /\ DOMAIN outdir.csv = {race.w[1].i}

\* C19 as claimed: load_settings(style) with a style name the callers of
\* the repository pass ('web', 'default'), the file of the style being
\* there, returns, and plt.rcParams then has every entry of the file.
C19_CallerStylesLoad ==
    (/\ last.op = "load_settings"
     /\ mpl.arg[1].style \in CallerStyles
     /\ mpl.arg[1].file # Absent) =>
        /\ last.err = "ok"
        /\ \A k \in DOMAIN mpl.arg[1].file.rc :
               RcParams(mpl)[k] = mpl.arg[1].file.rc[k]

\* C20 as claimed: pgfsave(), returning or raising, leaves every rc
\* parameter with the value it had before the call.
C20_PgfsaveRestores ==
    [][last'.op = "pgfsave" => RcParams(mpl') = RcParams(mpl)]_vars

\* C21 as claimed: a conversion called with a unit name outside its table
\* raises UnitsError, and called with every unit name inside its table it
\* returns.
C21_UnitsErrorOrValue ==
    units # None =>
        LET u == units[1]
            inside == /\ u.u1 \in Table1(u.fn)
                      /\ u.u2 # None => u.u2[1] \in Table2(u.fn)[1]
        IN  last.err = IF inside THEN "ok" ELSE "UnitsError"

\* C22: while no load_sample() has returned, fit_gaussian() and
\* plot_spectrum() raise RuntimeError ("You must load data first."); when
\* they return, lmbda and response are both set, by one and the same
\* load_sample() call, which returned.
C22_FitNeedsOneLoad ==
    last.op \in {"fit_gaussian", "plot_spectrum"} =>
        /\ spectrum.loads = 0 =>
               last.err = "RuntimeError" /\ last.msg = NotLoadedMsg
        /\ last.err = "ok" =>
               /\ spectrum.lmbda # None
               /\ spectrum.response # None
               /\ spectrum.hl = spectrum.hr
               /\ spectrum.hl >= 1
               /\ spectrum.loads >= 1

\* C22 witness: after a load_sample() that returned and a second that
\* raised, fit_gaussian() returns on the data of the first.
C22_Witness ==
    /\ last.op = "fit_gaussian" /\ last.err = "ok"
    /\ spectrum.calls = 2 /\ spectrum.loads = 1
    /\ spectrum.hl = 1 /\ spectrum.hr = 1
    /\ spectrum.lmbda = Some(FileA.x) /\ spectrum.response = Some(FileA.y)

\* C23: after any add_data() and plot() calls, x, y and legend are as long
\* as the number of add_data() calls that returned; plot() raises ValueError
\* when that number is zero and no ValueError when it is not.
C23_ListsInStep ==
    /\ Len(plotter.x) = plotter.added
    /\ Len(plotter.y) = plotter.added
    /\ Len(plotter.legend) = plotter.added
    /\ last.op = "plot" => (last.err = "ValueError" <=> plotter.added = 0)

\* C23 witness: of two add_data() calls one returned and one raised, the
\* lists hold one entry each, and plot() has got past its first check.
C23_Witness ==
    /\ plotter.calls = 2 /\ plotter.added = 1
    /\ Len(plotter.x) = 1 /\ Len(plotter.y) = 1 /\ Len(plotter.legend) = 1
    /\ last.op = "plot" /\ last.err # "ValueError"

\* C24: sellmeier() and focal_length() leave the caller's wavelength object
\* as it was, and two calls of the same method with that object (and the
\* same lens) end alike and return the same value.
C24_ArgumentUnchanged ==
    glass # None =>
    /\ glass.wl = glass.orig
    /\ \A i, j \in DOMAIN glass.results :
          (glass.results[i].op = glass.results[j].op /\
           glass.results[i].lens = glass.results[j].lens)
              => glass.results[i] = glass.results[j]

=============================================================================
